---------------------------- MODULE Spec2Model ----------------------------
(***************************************************************************)
(* Loco Lift Rush (src/loco_lift_rush.py, src/utils.py): the scene loop,   *)
(* the lift physics and the per-user update of the play scene.             *)
(*                                                                         *)
(* Units.  Time is counted in hundredths of a second (TimeScale units per   *)
(* second): delta_time, patience, the spawn countdown and the level        *)
(* countdown are integers in that unit.  Positions are pixels.  With       *)
(* USER_SPEED = 100 px/s a user moves 1 px per time unit, so every user    *)
(* coordinate stays an integer exactly as the float arithmetic of the      *)
(* source gives it.  The lift velocity (a float Vector2 in the source) is  *)
(* kept in whole px/s; the product with SPEED_DAMPING = 0.9 is truncated   *)
(* toward zero, which is the one place where the model rounds.  The lift   *)
(* rectangle is an integer pg.Rect in the source: assigning a float to     *)
(* rect.y truncates toward zero, and the model does the same.              *)
(***************************************************************************)
EXTENDS Integers, Sequences, FiniteSets, TLC

VARIABLES
    current_scene,   \* utils.game: which scene function is installed
    shared_state,    \* utils.game: the dict handed to every scene
    state,           \* play(): the GameState of the running round
    lift,            \* play(): the Lift of the running round
    tick             \* the inputs and the resolved floor of the last play tick

vars == <<current_scene, shared_state, state, lift, tick>>

---------------------------------------------------------------------------
(* Program constants.                                                      *)

TimeScale == 100
WIDTH == 800
HEIGHT == 800
FLOOR_HEIGHT == 128
MAX_SNAP_SPEED == 100
SNAP_THRESHOLD == 50
USER_WIDTH == 32
USER_HEIGHT == FLOOR_HEIGHT
LIFT_WIDTH == 100
LIFT_HEIGHT == FLOOR_HEIGHT
USER_SPEED == 100
USER_ANGRY_SPEED == 200
LIFT_ACCELERATION == 1600
TESTY == 5 * TimeScale
NORMAL == 15 * TimeScale
CHILL == 30 * TimeScale
PatienceLevel == {TESTY, NORMAL, CHILL}
max_speed == 600
min_speed == 10
capacity == 4
num_floors == 8
building_height == num_floors * FLOOR_HEIGHT
LIFT_X == (WIDTH \div 2) - (LIFT_WIDTH \div 2)
LEVEL_DURATION == 90 * TimeScale
LEVEL_EXTENSION == 10 * TimeScale

None == 0 - 1

---------------------------------------------------------------------------
(* Arithmetic helpers.                                                     *)

Abs(n) == IF n < 0 THEN 0 - n ELSE n

Min2(a, b) == IF a <= b THEN a ELSE b

Max2(a, b) == IF a >= b THEN a ELSE b

SetMin(S) == CHOOSE m \in S : \A n \in S : m <= n

SetMax(S) == CHOOSE m \in S : \A n \in S : m >= n

\* int(n / d): the quotient truncated toward zero, as a float assigned to an
\* integer pg.Rect coordinate is.
Trunc(n, d) == IF n >= 0 THEN n \div d ELSE 0 - ((0 - n) \div d)

SPAWN_X(side) == IF side = 0 THEN 0 - USER_WIDTH ELSE WIDTH

floor_y(i, n) == (n - i) * FLOOR_HEIGHT

---------------------------------------------------------------------------
(* Rectangles: the lift is at x = LIFT_X, y = lift.y; a user at x = u.x    *)
(* with its bottom at u.bottom.                                            *)

LiftLeft == LIFT_X
LiftRight == LIFT_X + LIFT_WIDTH
LiftCenterX == LIFT_X + (LIFT_WIDTH \div 2)
LiftBottom(l) == l.y + LIFT_HEIGHT

UserRight(u) == u.x + USER_WIDTH
UserCenterX(u) == u.x + (USER_WIDTH \div 2)
UserTop(u) == u.bottom - USER_HEIGHT

\* screen_rect.contains(user.rect) with screen_rect = (0, 0, WIDTH, HEIGHT)
ScreenContains(u) ==
    /\ 0 <= u.x
    /\ 0 <= UserTop(u)
    /\ UserRight(u) <= WIDTH
    /\ u.bottom <= HEIGHT

---------------------------------------------------------------------------
(* Lift physics of one tick (play._scene, lines 204-245).                  *)

ApplyActionReleaseOwn(acc, action) ==
    CASE action = "pressed_up" -> 0 - LIFT_ACCELERATION
      [] action = "pressed_down" -> LIFT_ACCELERATION
      [] action = "mouse_pressed_upper" -> 0 - LIFT_ACCELERATION
      [] action = "mouse_pressed_lower" -> LIFT_ACCELERATION
      [] action = "released_up" -> IF acc < 0 THEN 0 ELSE acc
      [] action = "released_down" -> IF acc > 0 THEN 0 ELSE acc
      [] action = "mouse_released" -> 0
      [] OTHER -> acc

\* The action dispatch: the tokens of the tick applied in event order.
ApplyAction(acc, action) ==
    CASE action = "pressed_up" -> 0 - LIFT_ACCELERATION
      [] action = "pressed_down" -> LIFT_ACCELERATION
      [] action = "mouse_pressed_upper" -> 0 - LIFT_ACCELERATION
      [] action = "mouse_pressed_lower" -> LIFT_ACCELERATION
      [] action = "released_up" -> 0
      [] action = "released_down" -> 0
      [] action = "mouse_released" -> 0
      [] OTHER -> acc

RECURSIVE ApplyActions(_, _)
ApplyActions(acc, actions) ==
    IF actions = <<>> THEN acc
    ELSE ApplyActions(ApplyAction(acc, Head(actions)), Tail(actions))

HasExit(actions) == \E i \in 1..Len(actions) : actions[i] = "exit"

DeadZone(v) == IF Abs(v) < min_speed THEN 0 ELSE v

ClampSpeed(v) ==
    IF Abs(v) > max_speed THEN (IF v > 0 THEN max_speed ELSE 0 - max_speed) ELSE v

SpeedDamping(v) == Trunc(v * 9, 10)

\* velocity after lines 227-232
IntegrateVelocity(v, acc, dt) ==
    SpeedDamping(ClampSpeed(DeadZone(v + Trunc(acc * dt, TimeScale))))

ClampBottomNoTop(y) == Min2(y, building_height - LIFT_HEIGHT)

\* rect.bottom = min(building_height, rect.bottom); rect.top = max(rect.top, 0)
ClampToBuilding(y) == Max2(Min2(y, building_height - LIFT_HEIGHT), 0)

\* rect.y after lines 233-235
IntegratePosition(y, v, dt) ==
    ClampToBuilding(Trunc(y * TimeScale + v * dt, TimeScale))

\* lift_floor of line 236, from rect.y
LiftFloor(y) == (building_height - (y + LIFT_HEIGHT)) \div FLOOR_HEIGHT

SnapToFloorAnySpeed(y, v) ==
    LET offset == (building_height - (y + LIFT_HEIGHT)) % FLOOR_HEIGHT
    IN  IF Abs((FLOOR_HEIGHT \div 2) - offset) > SNAP_THRESHOLD
        THEN IF offset < FLOOR_HEIGHT \div 2
             THEN y + offset
             ELSE y - (FLOOR_HEIGHT - offset)
        ELSE y

\* rect.y after the snap of lines 239-245
SnapToFloor(y, v) ==
    LET offset == (building_height - (y + LIFT_HEIGHT)) % FLOOR_HEIGHT
    IN  IF Abs(v) < MAX_SNAP_SPEED /\ Abs((FLOOR_HEIGHT \div 2) - offset) > SNAP_THRESHOLD
        THEN IF offset < FLOOR_HEIGHT \div 2
             THEN y + offset
             ELSE y - (FLOOR_HEIGHT - offset)
        ELSE y

\* lift_was_stopped of line 225, from the velocity the last tick left
LiftWasStopped(v) == Abs(v) < min_speed

\* state.lift_sound.get_length() of line 256, in units of 1/TimeScale s: the
\* length of the "lift_start" asset
LiftStartLength == 100

\* The lift sounds of lines 247-277: the sound that is state.lift_sound after
\* the tick, state.lift_start_delay after the tick, and cue, the sound whose
\* play() the tick called ("none" when it called none).  sound is "none" for
\* None; velocity and acceleration are the tick's.
LiftSounds(sound, delay, was_stopped, velocity, acceleration, dt) ==
    IF Abs(velocity) > 0
    THEN IF was_stopped
         THEN [lift_sound |-> "lift_start", lift_start_delay |-> LiftStartLength,
               cue |-> "lift_start"]
         ELSE IF acceleration = 0
         THEN IF sound # "lift_stop"
              THEN [lift_sound |-> "lift_stop", lift_start_delay |-> delay,
                    cue |-> "lift_stop"]
              ELSE [lift_sound |-> sound, lift_start_delay |-> delay, cue |-> "none"]
         ELSE IF delay <= 0
         THEN IF sound # "lift_moving"
              THEN [lift_sound |-> "lift_moving", lift_start_delay |-> delay,
                    cue |-> "lift_moving"]
              ELSE [lift_sound |-> sound, lift_start_delay |-> delay, cue |-> "none"]
         ELSE [lift_sound |-> sound, lift_start_delay |-> delay - dt, cue |-> "none"]
    ELSE [lift_sound |-> sound, lift_start_delay |-> delay, cue |-> "none"]

---------------------------------------------------------------------------
(* The per-user update of one tick (play._scene, lines 300-423).  The loop *)
(* state st carries what the loop body mutates: the users (updated in      *)
(* place, in list order), lift.passengers, the two counters and            *)
(* users_to_remove (as list indices).  L is the lift after the physics of  *)
(* this tick, lift_floor the floor resolved before the snap, dt the tick's *)
(* delta_time.  random.choice makes the result a set of outcomes; raised   *)
(* records that random.choice was handed an empty list (IndexError).       *)

\* User.__eq__ of the dataclass: field-wise comparison (the model-only fields
\* id and spawned_at are no fields of the source).
UserEq(a, b) ==
    /\ a.floor = b.floor
    /\ a.destination = b.destination
    /\ a.patience = b.patience
    /\ a.x = b.x
    /\ a.bottom = b.bottom
    /\ a.lift_slot = b.lift_slot
    /\ a.waiting = b.waiting
    /\ a.satisfied = b.satisfied

\* all(lift.passengers)
LiftFull(passengers) == \A s \in 1..capacity : passengers[s] # None

AllSlots(passengers) == 0..(capacity - 1)

\* slots - occupied, lines 397-399 (slot indices 0..capacity-1)
AvailableSlots(passengers) == {s \in 0..(capacity - 1) : passengers[s + 1] = None}

\* slot_x of lines 327-328
SlotX(slot) ==
    LET slot_width == (LIFT_WIDTH - 16) \div capacity
    IN  LIFT_X + 8 + slot * slot_width + (slot_width \div 2)

\* at_destination of lines 303-304
AtDestination(L, u) ==
    Abs(LiftBottom(L) - (building_height - u.destination * FLOOR_HEIGHT)) < 5

\* lift_is_stopped of line 309
LiftIsStopped(L) == Abs(L.velocity) < 5

\* user.satisfied |= at_destination and lift_is_stopped
Satisfied(L, u) == u.satisfied \/ (AtDestination(L, u) /\ LiftIsStopped(L))

\* the test of line 337
LeftScreen(u) == ~(0 <= u.x /\ u.x <= WIDTH - USER_WIDTH)

KeepSlot(passengers, u) == passengers

\* lines 313-314
ReleaseSlot(passengers, u) ==
    IF passengers[u.lift_slot + 1] = u.id
    THEN [passengers EXCEPT ![u.lift_slot + 1] = None]
    ELSE passengers

\* Lines 336-339 for user i, whose updated record is u.
CountServed(st, i, u) ==
    IF LeftScreen(u)
    THEN [st EXCEPT !.users[i] = u,
                    !.users_to_remove = @ \cup {i},
                    !.served_users = @ + 1]
    ELSE [st EXCEPT !.users[i] = u]

\* The boarded branch, lines 307-339.
UpdateBoarded(st, i, L, dt) ==
    LET u == st.users[i]
        step == Trunc(USER_SPEED * dt, TimeScale)
    IN  IF Satisfied(L, u)
        THEN LET offset == UserCenterX(u) - LiftCenterX
                 directions == IF offset > 0 THEN {1}
                               ELSE IF offset < 0 THEN {0 - 1}
                               ELSE {0 - 1, 1}
                 st1 == [st EXCEPT !.passengers = ReleaseSlot(@, u)]
             IN  { CountServed(st1, i, [u EXCEPT !.satisfied = TRUE,
                                                 !.x = @ + d * step])
                   : d \in directions }
        ELSE LET slot_x == SlotX(u.lift_slot)
                 u1 == [u EXCEPT !.bottom = LiftBottom(L)]
                 u2 == IF Abs(UserCenterX(u1) - slot_x) > 1
                       THEN [u1 EXCEPT !.x = IF UserCenterX(u1) < slot_x
                                             THEN @ + step ELSE @ - step]
                       ELSE [u1 EXCEPT !.x = slot_x - (USER_WIDTH \div 2)]
             IN  { CountServed(st, i, u2) }

\* others of lines 354-362, as seen by user i whose record so far is u.
Others(st, i, u) ==
    { st.users[j] : j \in { k \in 1..Len(st.users) :
          /\ k # i
          /\ st.users[k].lift_slot = None
          /\ st.users[k].floor = u.floor
          /\ ~UserEq(st.users[k], u)
          /\ st.users[k].patience > 0 } }

\* Lines 363-386: the back of the queue on the user's side.
JoinQueue(st, i, u) ==
    LET others == Others(st, i, u)
    IN  IF UserCenterX(u) < LiftCenterX
        THEN LET end_of_queue ==
                     SetMin({LiftRight, WIDTH} \cup
                            { o.x : o \in { p \in others :
                                 UserRight(u) < p.x /\ p.x < LiftLeft } })
             IN  IF end_of_queue <= UserRight(u) + 5
                 THEN [u EXCEPT !.x = end_of_queue - 5 - USER_WIDTH, !.waiting = TRUE]
                 ELSE u
        ELSE LET end_of_queue ==
                     SetMax({LiftLeft, 0} \cup
                            { UserRight(o) : o \in { p \in others :
                                 u.x > UserRight(p) /\ UserRight(p) > LiftRight } })
             IN  IF end_of_queue >= u.x - 5
                 THEN [u EXCEPT !.x = end_of_queue + 5, !.waiting = TRUE]
                 ELSE u

\* Lines 390-393: keep a user that may not board outside the car.
KeepOutside(u, side) ==
    IF side = 1
    THEN [u EXCEPT !.x = Min2(UserRight(u), LiftLeft - 5) - USER_WIDTH]
    ELSE [u EXCEPT !.x = Max2(u.x, LiftRight + 5)]

DecayPatienceUnclamped(u, dt) ==
    IF u.waiting THEN [u EXCEPT !.patience = u.patience - dt] ELSE u

DecayPatiencePerFrame(u, dt) ==
    IF u.waiting THEN [u EXCEPT !.patience = Max2(0, u.patience - 2)] ELSE u

\* Lines 404-405.
DecayPatience(u, dt) ==
    IF u.waiting THEN [u EXCEPT !.patience = Max2(0, u.patience - dt)] ELSE u

MayNotBoardFullOnly(st, u, lift_floor) == LiftFull(st.passengers)

MayNotBoardWrongFloor(st, u, lift_floor) == lift_floor # u.floor

\* The guard of line 389: the user may not board.
MayNotBoard(st, u, lift_floor) == lift_floor # u.floor \/ LiftFull(st.passengers)

InDoorSpanWholeBody(u) == LiftLeft <= u.x /\ UserRight(u) <= LiftRight

\* The guard of line 396: the user is inside the door span.
InDoorSpan(u) == LiftLeft <= UserCenterX(u) /\ UserCenterX(u) <= LiftRight

\* The waiting branch with patience left, lines 349-405.
UpdateWaiting(st, i, u0, L, lift_floor, dt) ==
    LET side == IF UserCenterX(u0) < LiftCenterX THEN 1 ELSE 0
        step == Trunc(USER_SPEED * dt, TimeScale)
        u1 == [u0 EXCEPT !.x = IF side = 1 THEN @ + step ELSE @ - step]
        u2 == JoinQueue(st, i, u1)
    IN  IF MayNotBoard(st, u2, lift_floor)
        THEN { [st EXCEPT !.users[i] = DecayPatience(KeepOutside(u2, side), dt)] }
        ELSE IF InDoorSpan(u2)
        THEN IF AvailableSlots(st.passengers) = {}
             THEN { [st EXCEPT !.users[i] = u2, !.raised = TRUE] }
             ELSE
             { [st EXCEPT !.users[i] =
                              DecayPatience([u2 EXCEPT !.lift_slot = s,
                                                       !.bottom = LiftBottom(L)], dt),
                          !.passengers[s + 1] = u2.id]
               : s \in AvailableSlots(st.passengers) }
        ELSE { [st EXCEPT !.users[i] = DecayPatience(u2, dt)] }

\* The branch of a user out of patience, lines 407-415.
UpdateAbandoning(st, i, u0, dt) ==
    LET direction == IF UserCenterX(u0) < LiftCenterX THEN 0 - 1 ELSE 1
        u1 == [u0 EXCEPT !.x = @ + direction * Trunc(USER_ANGRY_SPEED * dt, TimeScale)]
    IN  IF ~ScreenContains(u1)
        THEN { [st EXCEPT !.users[i] = u1,
                          !.users_to_remove = @ \cup {i},
                          !.complaints = @ + 1] }
        ELSE { [st EXCEPT !.users[i] = u1] }

BoardedUnsatisfied(u) == u.lift_slot # None /\ ~u.satisfied

\* The test of line 307: the user holds, or has held, a lift slot.
Boarded(u) == u.lift_slot # None

\* One pass of the loop body for user i, lines 302-415.
UpdateUser(st, i, L, lift_floor, dt) ==
    LET u == st.users[i]
        current_floor == (building_height - u.bottom) \div FLOOR_HEIGHT
    IN  IF Boarded(u)
        THEN UpdateBoarded(st, i, L, dt)
        ELSE LET u0 == [u EXCEPT !.bottom = building_height - current_floor * FLOOR_HEIGHT]
             IN  IF u0.patience # 0
                 THEN UpdateWaiting(st, i, u0, L, lift_floor, dt)
                 ELSE UpdateAbandoning(st, i, u0, dt)

\* for user in state.all_users, from user i on; an exception ends the loop.
RECURSIVE UpdateUsers(_, _, _, _, _)
UpdateUsers(st, i, L, lift_floor, dt) ==
    IF i > Len(st.users) \/ st.raised THEN {st}
    ELSE UNION { UpdateUsers(s, i + 1, L, lift_floor, dt)
                 : s \in UpdateUser(st, i, L, lift_floor, dt) }

RemoveNobody(users, to_remove, i) == users

\* the removal sweep of lines 422-423
RECURSIVE RemoveUsers(_, _, _)
RemoveUsers(users, to_remove, i) ==
    IF i > Len(users) THEN <<>>
    ELSE (IF i \in to_remove THEN <<>> ELSE <<users[i]>>)
         \o RemoveUsers(users, to_remove, i + 1)

---------------------------------------------------------------------------
(* The scenes (utils.game runs current_scene once per frame).  An          *)
(* environment E bounds what a frame can bring: E.dts the regular frame    *)
(* times, E.lags the irregular ones (a zero-length frame, a stalled frame) *)
(* by the play time at which one may occur, E.keys the non-empty action    *)
(* lists get_actions can return by the play time at which the player may   *)
(* use the keys, E.gen the descriptors the                                 *)
(* users() generator draws (floor, destination, patience, side), E.delays  *)
(* the draws of random.normalvariate(avg_arrival_time), E.max_users the    *)
(* number of users drawn in a round, E.max_ticks the number of frames and  *)
(* E.horizon the play time explored in a round, E.max_rounds (where rounds *)
(* follow one another) the number of rounds started from the end-level     *)
(* scene.                                                                  *)

NoTick ==
    [count |-> 0, delta_time |-> 0, actions |-> <<>>, lift_floor |-> 0, floor_since |-> 0,
     cue |-> "none"]

\* the frame times and the action lists a frame at the current play time can bring
\* (an irregular frame follows a regular one)
FrameTimes(E, now) ==
    E.dts \cup (IF now \in DOMAIN E.lags /\ tick.delta_time \in E.dts
               THEN E.lags[now] ELSE {})

FrameActions(E, now) == {<<>>} \cup (IF now \in DOMAIN E.keys THEN E.keys[now] ELSE {})

\* Lift() as play() sets it up, lines 174-176
NewLift ==
    [y |-> num_floors * FLOOR_HEIGHT - LIFT_HEIGHT,
     velocity |-> 0,
     acceleration |-> 0,
     passengers |-> [s \in 1..capacity |-> None]]

\* GameState() as play() sets it up, lines 169-172; spawned counts the draws
\* from user_stream
NewGameState(delay) ==
    [all_users |-> <<>>,
     num_floors |-> num_floors,
     complaints |-> 0,
     served_users |-> 0,
     lift_sound |-> "none",
     lift_start_delay |-> 0,
     time_to_next_user |-> delay,
     spawned |-> 0]

\* User(start_floor, destination, patience, rect) of lines 141-149
NewUser(d, id, now) ==
    [id |-> id,
     floor |-> d.floor,
     destination |-> d.destination,
     patience |-> d.patience,
     x |-> SPAWN_X(d.side),
     bottom |-> (num_floors - d.floor) * FLOOR_HEIGHT - USER_HEIGHT + USER_HEIGHT,
     lift_slot |-> None,
     waiting |-> FALSE,
     satisfied |-> FALSE,
     spawned_at |-> now]

\* play time elapsed in the round
Elapsed == shared_state.level_duration - shared_state.time_to_next_level

Init ==
    /\ current_scene = "main_menu"
    /\ shared_state = [level_duration |-> 0, time_to_next_level |-> 0,
                       num_floors |-> 0, served_users |-> 0, complaints |-> 0]
    /\ state = NewGameState(0)
    /\ lift = NewLift
    /\ tick = NoTick

\* main_menu._scene on a frame with a KEYDOWN event, lines 488-494
MainMenuScene(E) ==
    /\ current_scene = "main_menu"
    /\ \E delay \in E.delays :
          /\ shared_state' = [shared_state EXCEPT !.level_duration = LEVEL_DURATION,
                                                  !.time_to_next_level = LEVEL_DURATION,
                                                  !.num_floors = 8]
          /\ state' = NewGameState(delay)
          /\ lift' = NewLift
    /\ tick' = NoTick
    /\ current_scene' = "play"

\* end_level._scene on a frame with a K_SPACE KEYDOWN event, lines 458-461
EndLevelScene(E) ==
    /\ current_scene = "end_level"
    /\ shared_state.level_duration < LEVEL_DURATION + E.max_rounds * LEVEL_EXTENSION
    /\ \E delay \in E.delays :
          /\ shared_state' = [shared_state EXCEPT
                                 !.level_duration = @ + LEVEL_EXTENSION,
                                 !.time_to_next_level = shared_state.level_duration
                                                        + LEVEL_EXTENSION]
          /\ state' = NewGameState(delay)
          /\ lift' = NewLift
    /\ tick' = NoTick
    /\ current_scene' = "play"

\* the action tokens handled before the first "exit" of the list
RECURSIVE BeforeExit(_)
BeforeExit(actions) ==
    IF actions = <<>> \/ Head(actions) = "exit" THEN <<>>
    ELSE <<Head(actions)>> \o BeforeExit(Tail(actions))

\* play._scene on a frame whose actions hold "exit", lines 204-223
PlayExit(E) ==
    /\ current_scene = "play"
    /\ \E actions \in FrameActions(E, Elapsed) :
          /\ HasExit(actions)
          /\ lift' = [lift EXCEPT !.acceleration = ApplyActions(@, BeforeExit(actions))]
    /\ current_scene' = "main_menu"
    /\ UNCHANGED <<shared_state, state, tick>>

\* What the k-th pull of a round can bring: the descriptor next(user_stream)
\* yields and the countdown random.normalvariate reseeds, either any of
\* E.gen with any of E.delays, or what the environment scripts for pull k.
SpawnChoices(E, k) ==
    IF "script" \in DOMAIN E
    THEN E.script[k]
    ELSE { [user |-> d, delay |-> delay] : d \in E.gen, delay \in E.delays }

SpawnStrict(E, dt) ==
    LET t == state.time_to_next_user - dt
    IN  IF t < 0
        THEN { [all_users |-> Append(state.all_users,
                                     NewUser(c.user, state.spawned + 1, Elapsed)),
                time_to_next_user |-> c.delay,
                spawned |-> state.spawned + 1]
               : c \in SpawnChoices(E, state.spawned + 1) }
        ELSE { [all_users |-> state.all_users,
                time_to_next_user |-> t,
                spawned |-> state.spawned] }

\* The spawn of lines 293-298: the set of (all_users, time_to_next_user, spawned).
Spawn(E, dt) ==
    LET t == state.time_to_next_user - dt
    IN  IF t <= 0
        THEN { [all_users |-> Append(state.all_users,
                                     NewUser(c.user, state.spawned + 1, Elapsed)),
                time_to_next_user |-> c.delay,
                spawned |-> state.spawned + 1]
               : c \in SpawnChoices(E, state.spawned + 1) }
        ELSE { [all_users |-> state.all_users,
                time_to_next_user |-> t,
                spawned |-> state.spawned] }

LevelOverStrict(time_left) == time_left < 0

\* the test of line 434
LevelOver(time_left) == time_left <= 0

\* play._scene on a frame without "exit", lines 204-439
PlayTick(E) ==
    /\ current_scene = "play"
    /\ Elapsed < E.horizon
    /\ tick.count < E.max_ticks
    /\ \E dt \in FrameTimes(E, Elapsed), actions \in FrameActions(E, Elapsed) :
          /\ ~HasExit(actions)
          /\ state.time_to_next_user - dt <= 0 => state.spawned < E.max_users
          /\ LET acceleration == ApplyActions(lift.acceleration, actions)
                 velocity == IntegrateVelocity(lift.velocity, acceleration, dt)
                 y1 == IntegratePosition(lift.y, velocity, dt)
                 lift_floor == LiftFloor(y1)
                 y2 == SnapToFloor(y1, velocity)
                 L == [lift EXCEPT !.acceleration = acceleration,
                                   !.velocity = velocity,
                                   !.y = y2]
                 snd == LiftSounds(state.lift_sound, state.lift_start_delay,
                                   LiftWasStopped(lift.velocity), velocity,
                                   acceleration, dt)
                 time_left == shared_state.time_to_next_level - dt
             IN  \E sp \in Spawn(E, dt) :
                 \E st \in UpdateUsers([users |-> sp.all_users,
                                        passengers |-> lift.passengers,
                                        served_users |-> state.served_users,
                                        complaints |-> state.complaints,
                                        users_to_remove |-> {},
                                        raised |-> FALSE],
                                       1, L, lift_floor, dt) :
                    /\ lift' = [L EXCEPT !.passengers = st.passengers]
                    /\ state' = [all_users |-> IF st.raised THEN st.users
                                               ELSE RemoveUsers(st.users,
                                                                st.users_to_remove, 1),
                                 num_floors |-> state.num_floors,
                                 complaints |-> st.complaints,
                                 served_users |-> st.served_users,
                                 lift_sound |-> snd.lift_sound,
                                 lift_start_delay |-> snd.lift_start_delay,
                                 time_to_next_user |-> sp.time_to_next_user,
                                 spawned |-> sp.spawned]
                    /\ tick' = [count |-> tick.count + 1,
                                delta_time |-> dt,
                                actions |-> actions,
                                lift_floor |-> lift_floor,
                                cue |-> snd.cue,
                                floor_since |-> IF lift_floor = tick.lift_floor
                                                THEN tick.floor_since
                                                ELSE Elapsed + dt]
                    /\ IF st.raised
                       THEN /\ shared_state' = shared_state
                            /\ current_scene' = "crashed"
                       ELSE IF LevelOver(time_left)
                       THEN /\ shared_state' =
                                  [shared_state EXCEPT
                                      !.time_to_next_level = time_left,
                                      !.served_users = st.served_users,
                                      !.complaints = st.complaints,
                                      !.num_floors = state.num_floors + 1]
                            /\ current_scene' = "end_level"
                       ELSE /\ shared_state' =
                                  [shared_state EXCEPT !.time_to_next_level = time_left]
                            /\ current_scene' = "play"

---------------------------------------------------------------------------
(* Specifications.                                                         *)

MaxLiftTicks == 5

\* The lift alone, every frame free: frame times from a zero-length frame to
\* a 2 s stall, the keys in any order, explored for MaxLiftTicks frames of
\* the time before the first spawn (3 s, the mean arrival time).
LiftEnv ==
    [dts |-> {0, 10, 20, 200},
     lags |-> <<>>,
     keys |-> [t \in 0..(3 * TimeScale) |->
                 {<<"pressed_up">>, <<"pressed_down">>, <<"released_up">>}],
     gen |-> {},
     delays |-> {3 * TimeScale},
     max_users |-> 0,
     max_ticks |-> MaxLiftTicks,
     horizon |-> 3 * TimeScale]

LiftNext == MainMenuScene(LiftEnv) \/ PlayTick(LiftEnv)

LiftSpec == Init /\ [][LiftNext]_vars

MaxKeyTicks == 3

\* the action tokens of the play scene's bindings, the mouse press split by
\* the half of the window it falls in
Tokens ==
    {"pressed_up", "pressed_down", "released_up", "released_down",
     "mouse_pressed_upper", "mouse_pressed_lower", "mouse_released"}

\* The controls: frames of 20 ms or 0.1 s, each bringing no event, one event
\* or two events in either order, among them the exit key, for MaxKeyTicks
\* frames of a round without users.
KeyEnv ==
    [dts |-> {2, 10},
     lags |-> <<>>,
     keys |-> [t \in 0..(3 * TimeScale) |->
                 {<<a>> : a \in Tokens \cup {"exit"}}
                 \cup {<<a, b>> : a \in Tokens, b \in Tokens \cup {"exit"}}],
     gen |-> {},
     delays |-> {3 * TimeScale},
     max_users |-> 0,
     max_ticks |-> MaxKeyTicks,
     horizon |-> 3 * TimeScale]

KeyNext == MainMenuScene(KeyEnv) \/ PlayTick(KeyEnv) \/ PlayExit(KeyEnv)

KeySpec == Init /\ [][KeyNext]_vars

MaxUsersS == 4
MaxTicksS == 6

\* The arrivals: frames of 0.1 s or of zero length, no input; the countdown
\* is seeded and reseeded with 0.3 s, 0 s or -0.05 s (normalvariate has no
\* lower bound); users come to floor 1 on the left or to floor 2 on the
\* right; MaxUsersS pulls and MaxTicksS frames are followed.
EnvS ==
    [dts |-> {0, 10},
     lags |-> <<>>,
     keys |-> <<>>,
     gen |-> {[floor |-> 1, destination |-> 0, patience |-> TESTY, side |-> 0],
              [floor |-> 2, destination |-> 1, patience |-> CHILL, side |-> 1]},
     delays |-> {0 - 5, 0, 30},
     max_users |-> MaxUsersS,
     max_ticks |-> MaxTicksS,
     horizon |-> 3 * TimeScale]

NextS == MainMenuScene(EnvS) \/ PlayTick(EnvS)

SpecS == Init /\ [][NextS]_vars

MaxUsers == 3
MaxTicks == 140

\* A round with users: regular frames of 0.1 s; users arrive on the left of
\* floor 1, bound for floor 0, 0.5 s or 6 s apart; the player may send the
\* lift up to floor 1 early (the up key held from 2.0 s to 2.1 s) and back
\* down (the down key held from 5.0 s to 5.2 s); a frame may be irregular
\* (zero-length, or a 5 s stall) at two moments.
Env ==
    [dts |-> {10},
     lags |-> (470 :> {0, 500}) @@ (520 :> {0}),
     keys |-> (200 :> {<<"pressed_up">>}) @@ (210 :> {<<"released_up">>})
              @@ (500 :> {<<"pressed_down">>}) @@ (520 :> {<<"released_down">>}),
     gen |-> {[floor |-> 1, destination |-> 0, patience |-> TESTY, side |-> 0]},
     delays |-> {50, 600},
     max_users |-> MaxUsers,
     max_ticks |-> MaxTicks,
     horizon |-> 13 * TimeScale]

Next == MainMenuScene(Env) \/ PlayTick(Env)

Spec == Init /\ [][Next]_vars

MaxUsersA == 2
MaxTicksA == 1650

\* Scenario A: regular frames of 20 ms; the player never touches the keys, so
\* the lift stays at floor 0; users arrive on the left of floor 0, bound for
\* floor 3, with 30 s of patience, 0.5 s after the start or after one
\* another (or not before 40 s); one frame may be irregular (zero-length, or
\* a 0.5 s stall) 2 s into the round.  The round is followed for 32 s.
EnvA ==
    [dts |-> {2},
     lags |-> (200 :> {0, 50}),
     keys |-> <<>>,
     gen |-> {[floor |-> 0, destination |-> 3, patience |-> CHILL, side |-> 0]},
     delays |-> {50, 40 * TimeScale},
     max_users |-> MaxUsersA,
     max_ticks |-> MaxTicksA,
     horizon |-> 32 * TimeScale]

NextA == MainMenuScene(EnvA) \/ PlayTick(EnvA)

SpecA == Init /\ [][NextA]_vars

MaxUsersB == 5
MaxTicksB == 420

\* Scenario B: regular frames of 20 ms; users arrive on the left of floor 1,
\* bound for floor 0, with 30 s of patience, 0.06 s or 0.5 s after one another
\* (or not before 10 s); once they stand at the door the player may send
\* the lift up from floor 0 to floor 1 (the up key held from 6.0 s to 6.4 s)
\* and leave it there.  The round is followed for 8 s.
EnvB ==
    [dts |-> {2},
     lags |-> <<>>,
     keys |-> (600 :> {<<"pressed_up">>}) @@ (640 :> {<<"released_up">>}),
     gen |-> {[floor |-> 1, destination |-> 0, patience |-> CHILL, side |-> 0]},
     delays |-> {6, 50, 10 * TimeScale},
     max_users |-> MaxUsersB,
     max_ticks |-> MaxTicksB,
     horizon |-> 8 * TimeScale]

NextB == MainMenuScene(EnvB) \/ PlayTick(EnvB)

SpecB == Init /\ [][NextB]_vars

MaxUsersL == 2
MaxTicksL == 240
MaxRounds == 2

\* Rounds played to the end: regular frames of 0.1 s and no keys; users
\* arrive on the left of floor 1 with 5 s of patience, 0.5 s after the start
\* or after one another (or not within the round); 10 s into a round one
\* frame may stall for 80 s, which brings the end of the level within reach;
\* from the end-level scene the player starts the next round.
EnvL ==
    [dts |-> {10},
     lags |-> (10 * TimeScale :> {80 * TimeScale}),
     keys |-> <<>>,
     gen |-> {[floor |-> 1, destination |-> 0, patience |-> TESTY, side |-> 0]},
     delays |-> {50, 200 * TimeScale},
     max_users |-> MaxUsersL,
     max_ticks |-> MaxTicksL,
     horizon |-> 200 * TimeScale,
     max_rounds |-> MaxRounds]

NextL == MainMenuScene(EnvL) \/ PlayTick(EnvL) \/ EndLevelScene(EnvL)

SpecL == Init /\ [][NextL]_vars

MaxTicksC == 420

\* Both doors of floor 1: regular frames of 20 ms.  Two users board at
\* floor 0 for floor 2 (spawned at 0.5 s and 1.0 s); on floor 1 one user
\* comes to the left door (1.5 s), a second queues behind it (2.0 s) and a
\* third comes from the right (1.4 s to 1.7 s after the second); the player
\* may hold the up key from 6.0 s to 6.4 s, which brings the lift to floor
\* 1.  The round is followed for 8 s.
EnvC ==
    [dts |-> {2},
     lags |-> <<>>,
     keys |-> (600 :> {<<"pressed_up">>}) @@ (640 :> {<<"released_up">>}),
     delays |-> {50},
     script |-> <<
        {[user |-> [floor |-> 0, destination |-> 2, patience |-> CHILL, side |-> 0],
          delay |-> 50]},
        {[user |-> [floor |-> 0, destination |-> 2, patience |-> CHILL, side |-> 0],
          delay |-> 50]},
        {[user |-> [floor |-> 1, destination |-> 0, patience |-> CHILL, side |-> 0],
          delay |-> 50]},
        {[user |-> [floor |-> 1, destination |-> 0, patience |-> CHILL, side |-> 0],
          delay |-> dl] : dl \in {140, 150, 160, 170}},
        {[user |-> [floor |-> 1, destination |-> 0, patience |-> CHILL, side |-> 1],
          delay |-> 10 * TimeScale]} >>,
     max_users |-> 5,
     max_ticks |-> MaxTicksC,
     horizon |-> 8 * TimeScale]

NextC == MainMenuScene(EnvC) \/ PlayTick(EnvC)

SpecC == Init /\ [][NextC]_vars

MaxTicksR == 660

\* A delivery and a complaint in one round: regular frames of 20 ms.  A
\* user for floor 1 comes to floor 0 at 0.5 s and boards; two users with 5 s
\* of patience come to floor 2 at 1.0 s and 1.5 s, the second queues behind
\* the first; the player may hold the up key from 6.0 s to 6.4 s, which
\* brings the lift to floor 1.  The round is followed for 13 s.
EnvR ==
    [dts |-> {2},
     lags |-> <<>>,
     keys |-> (600 :> {<<"pressed_up">>}) @@ (640 :> {<<"released_up">>}),
     delays |-> {50},
     script |-> <<
        {[user |-> [floor |-> 0, destination |-> 1, patience |-> CHILL, side |-> 0],
          delay |-> 50]},
        {[user |-> [floor |-> 2, destination |-> 0, patience |-> TESTY, side |-> 0],
          delay |-> 50]},
        {[user |-> [floor |-> 2, destination |-> 0, patience |-> TESTY, side |-> 0],
          delay |-> 20 * TimeScale]} >>,
     max_users |-> 3,
     max_ticks |-> MaxTicksR,
     horizon |-> 13 * TimeScale]

NextR == MainMenuScene(EnvR) \/ PlayTick(EnvR)

SpecR == Init /\ [][NextR]_vars

---------------------------------------------------------------------------
(* Vocabulary of the properties.  The properties are stated over the state *)
(* before and after a play tick; a user is followed from one to the other  *)
(* by its id.                                                              *)

Ids(users) == { users[i].id : i \in 1..Len(users) }

Get(users, id) == users[CHOOSE i \in 1..Len(users) : users[i].id = id]

\* a play tick has just run
Ticked == current_scene = "play" /\ tick'.count = tick.count + 1

\* the user holds a slot and has not been delivered
Riding(u) == u.lift_slot # -1 /\ ~u.satisfied

\* the user has never boarded
Unboarded(u) == u.lift_slot = -1

Riders(users) == { id \in Ids(users) : Riding(Get(users, id)) }

\* the users a tick removed, and the users it kept
Removed == Ids(state.all_users) \ Ids(state'.all_users)

Kept == Ids(state.all_users) \cap Ids(state'.all_users)

\* play time since the user spawned
Age(u) == Elapsed - u.spawned_at

\* the lift, as the tick leaves it, is stopped on the destination line of u
DeliveredNow(u) ==
    /\ Abs(lift'.velocity) < 5
    /\ Abs((lift'.y + 128) - (1024 - 128 * u.destination)) < 5

\* a play tick of zero length without input has just run
QuietTick == Ticked /\ tick'.delta_time = 0 /\ tick'.actions = <<>>

---------------------------------------------------------------------------
(* C3.  Patience never increases and never goes below 0, and a user is     *)
(* counted as a complaint (it walked off-screen in the Abandoning          *)
(* behaviour) only with its patience at exactly 0.                         *)

PatienceStep ==
    Ticked =>
       /\ \A id \in Kept :
             Get(state'.all_users, id).patience <= Get(state.all_users, id).patience
       /\ \A id \in Removed :
             Unboarded(Get(state.all_users, id)) => Get(state.all_users, id).patience = 0
       /\ state'.complaints - state.complaints
             = Cardinality({ id \in Removed : Unboarded(Get(state.all_users, id)) })

PatienceNonNegative ==
    \A id \in Ids(state.all_users) : Get(state.all_users, id).patience >= 0

C3_Patience == []PatienceNonNegative /\ [][PatienceStep]_vars

\* a user waited its patience out and was counted
C3_Witness == state.complaints > 0

---------------------------------------------------------------------------
(* C1.  The riding users never outnumber the lift's capacity, no two of    *)
(* them hold the same slot index, no user is held by two slots of          *)
(* lift.passengers, and a lift_slot once assigned never changes.           *)

SlotsExclusive ==
    /\ Cardinality(Riders(state.all_users)) <= 4
    /\ \A a, b \in Riders(state.all_users) :
          a # b => Get(state.all_users, a).lift_slot # Get(state.all_users, b).lift_slot
    /\ \A s, t \in 1..4 :
          (s # t /\ lift.passengers[s] # -1) => lift.passengers[s] # lift.passengers[t]

SlotStep ==
    Ticked =>
       \A id \in Kept :
          Get(state.all_users, id).lift_slot # -1
             => Get(state'.all_users, id).lift_slot = Get(state.all_users, id).lift_slot

C1_Slots == []SlotsExclusive /\ [][SlotStep]_vars

\* the car is full and one more user stands at the door
C1_Witness ==
    /\ Cardinality(Riders(state.all_users)) = 4
    /\ \E id \in Ids(state.all_users) :
          Unboarded(Get(state.all_users, id)) /\ Get(state.all_users, id).x = 313

---------------------------------------------------------------------------
(* C2.  A user acquires a lift slot only in a tick whose resolved lift     *)
(* floor is the user's floor, in which the slot it gets was free (empty,   *)
(* or given up in that tick by a rider that was delivered), with its       *)
(* centre inside the door span and with patience left at the start of the  *)
(* tick.                                                                   *)

BoardStep ==
    Ticked =>
       \A id \in Ids(state'.all_users) :
          LET v == Get(state'.all_users, id)
              u == IF id \in Ids(state.all_users)
                   THEN Get(state.all_users, id)
                   ELSE [v EXCEPT !.lift_slot = -1]
          IN  (u.lift_slot = -1 /\ v.lift_slot # -1) =>
                 /\ tick'.lift_floor = u.floor
                 /\ v.lift_slot \in 0..3
                 /\ lift'.passengers[v.lift_slot + 1] = id
                 /\ \/ lift.passengers[v.lift_slot + 1] = -1
                    \/ \E r \in Ids(state.all_users) :
                          /\ lift.passengers[v.lift_slot + 1] = r
                          /\ Riding(Get(state.all_users, r))
                          /\ DeliveredNow(Get(state.all_users, r))
                 /\ 350 <= v.x + 16
                 /\ v.x + 16 <= 450
                 /\ u.patience > 0

C2_Boarding == [][BoardStep]_vars

\* a user rides in the slot that holds it, level with the car
C2_Witness ==
    \E id \in Riders(state.all_users) :
       /\ lift.passengers[Get(state.all_users, id).lift_slot + 1] = id
       /\ Get(state.all_users, id).bottom = lift.y + 128

---------------------------------------------------------------------------
(* C4.  After every tick the lift is inside the building (top >= 0,        *)
(* bottom <= building_height, the snap included) and its speed is at most  *)
(* max_speed.                                                              *)

C4_LiftInBuilding ==
    /\ lift.y >= 0
    /\ lift.y + 128 <= 1024
    /\ lift.velocity <= 600
    /\ lift.velocity >= 0 - 600

\* the lift was stopped by the roof while still moving up
C4_Witness == tick.count > 0 /\ lift.y = 0 /\ lift.velocity < 0

---------------------------------------------------------------------------
(* C5.  A user that holds a lift slot is removed only once it is           *)
(* satisfied, and it is then counted in served_users, never in complaints. *)

RideStep ==
    Ticked =>
       /\ \A id \in Removed :
             LET u == Get(state.all_users, id)
             IN  u.lift_slot # -1 => (u.satisfied \/ DeliveredNow(u))
       /\ state'.served_users - state.served_users
             = Cardinality({ id \in Removed : Get(state.all_users, id).lift_slot # -1 })

C5_NoMidRideAbandonment == [][RideStep]_vars

---------------------------------------------------------------------------
(* C6.  A riding user becomes satisfied in a tick exactly when the lift,   *)
(* as the tick leaves it, is stopped (speed below 5) with its bottom       *)
(* within 5 px of the user's destination line; in that tick the user's     *)
(* slot of lift.passengers stops holding it.                               *)

DeliverStep ==
    Ticked =>
       \A id \in Kept :
          LET u == Get(state.all_users, id)
              v == Get(state'.all_users, id)
          IN  Riding(u) =>
                 /\ v.satisfied <=> DeliveredNow(u)
                 /\ v.satisfied => lift'.passengers[u.lift_slot + 1] # id

C6_Delivered == [][DeliverStep]_vars

\* a user has been delivered and is still inside the car
C6_Witness ==
    \E id \in Ids(state.all_users) :
       /\ Get(state.all_users, id).satisfied
       /\ 350 <= Get(state.all_users, id).x
       /\ Get(state.all_users, id).x + 32 <= 450

---------------------------------------------------------------------------
(* C7.  Scenario A as the program plays it: with the lift at rest at floor *)
(* 0 and a slot free, a user spawning on floor 0 for floor 3 with 30 s of  *)
(* patience walks into the car and holds a slot within 3.7 s of spawning,  *)
(* its patience still the full 30 s; it never abandons and complaints      *)
(* stays 0.                                                                *)

C7_BoardsAtFloor0 ==
    /\ lift.y = 896
    /\ state.complaints = 0
    /\ \A id \in Ids(state.all_users) :
          LET u == Get(state.all_users, id)
          IN  /\ u.patience = 3000
              /\ Age(u) >= 370 => u.lift_slot # -1

\* 30 s after it spawned the user rides in the car and nobody complained
C7_Witness ==
    /\ state.complaints = 0
    /\ \E id \in Riders(state.all_users) : Age(Get(state.all_users, id)) >= 3000

\* Scenario A as stated: 30 s after it spawned the user is out of patience
\* and un-boarded, and complaints is 1 after that.
C7_AbandonsAt30s ==
    /\ \A id \in Ids(state.all_users) :
          LET u == Get(state.all_users, id)
          IN  Age(u) >= 3000 => (u.patience = 0 /\ u.lift_slot = -1)
    /\ (state.spawned >= 1 /\ Elapsed >= 3100) => state.complaints >= 1

---------------------------------------------------------------------------
(* C8.  Scenario B: a user that stood in line on the lift's side when the  *)
(* lift arrived (it had spawned at least 3.45 s, the walk to the door,     *)
(* before) and that finds the car full, the lift staying at rest at its    *)
(* floor, stays un-boarded outside the car, and its patience decreases in  *)
(* every tick of positive length.                                          *)

LeftOutsideStep ==
    Ticked /\ tick'.delta_time > 0 =>
       \A id \in Kept :
          LET u == Get(state.all_users, id)
              v == Get(state'.all_users, id)
          IN  (/\ u.lift_slot = -1
               /\ u.patience > 0
               /\ tick.lift_floor = u.floor
               /\ tick'.lift_floor = u.floor
               /\ lift.velocity = 0
               /\ lift'.velocity = 0
               /\ u.spawned_at + 345 <= tick'.floor_since
               /\ \A s \in 1..4 : lift.passengers[s] # -1)
              => /\ v.lift_slot = -1
                 /\ v.x + 32 <= 345
                 /\ v.patience < u.patience

C8_LeftOutsideKeepsWaiting == [][LeftOutsideStep]_vars

---------------------------------------------------------------------------
(* C9.  A tick of zero length without input leaves every user's patience   *)
(* and the served_users counter unchanged, and leaves a lift that is at    *)
(* rest where it is, still at rest.                                        *)

ZeroTickStep ==
    QuietTick =>
       /\ \A id \in Kept :
             Get(state'.all_users, id).patience = Get(state.all_users, id).patience
       /\ state'.served_users = state.served_users
       /\ lift.velocity = 0 => (lift'.velocity = 0 /\ lift'.y = lift.y)

C9_ZeroTick == [][ZeroTickStep]_vars

\* a zero-length tick ran while a user was losing patience in the queue
C9_Witness ==
    /\ tick.count > 0
    /\ tick.delta_time = 0
    /\ tick.actions = <<>>
    /\ \E id \in Ids(state.all_users) :
          /\ Get(state.all_users, id).waiting
          /\ Get(state.all_users, id).patience \in 1..499

\* The idempotence as stated: nothing moves and no counter changes.
ZeroTickIdle ==
    QuietTick =>
       /\ lift'.y = lift.y
       /\ lift'.velocity = lift.velocity
       /\ \A id \in Kept :
             /\ Get(state'.all_users, id).x = Get(state.all_users, id).x
             /\ Get(state'.all_users, id).bottom = Get(state.all_users, id).bottom
             /\ Get(state'.all_users, id).patience = Get(state.all_users, id).patience
       /\ state'.served_users = state.served_users
       /\ state'.complaints = state.complaints

C9_ZeroTickIdle == [][ZeroTickIdle]_vars

---------------------------------------------------------------------------
(* C10.  A satisfied user stays satisfied: its flag is never cleared, its  *)
(* patience, lift_slot and waiting flag never change again, no slot of     *)
(* lift.passengers holds it, and it walks away from the lift's centre      *)
(* without ever queueing, until it is removed.  Only a user that holds a   *)
(* lift_slot is ever satisfied.                                            *)

SatisfiedStep ==
    Ticked =>
       \A id \in Kept :
          LET u == Get(state.all_users, id)
              v == Get(state'.all_users, id)
          IN  u.satisfied =>
                 /\ v.satisfied
                 /\ v.patience = u.patience
                 /\ v.lift_slot = u.lift_slot
                 /\ v.waiting = u.waiting
                 /\ \A s \in 1..4 : lift'.passengers[s] # id
                 /\ Abs((v.x + 16) - 400) >= Abs((u.x + 16) - 400)
                 /\ tick'.delta_time > 0 => v.x # u.x

SatisfiedHasBoarded ==
    \A id \in Ids(state.all_users) :
       Get(state.all_users, id).satisfied => Get(state.all_users, id).lift_slot # -1

C10_SatisfiedSticky == []SatisfiedHasBoarded /\ [][SatisfiedStep]_vars

\* a delivered user has walked out of the car
C10_Witness ==
    \E id \in Ids(state.all_users) :
       /\ Get(state.all_users, id).satisfied
       /\ \/ Get(state.all_users, id).x + 32 < 350
          \/ Get(state.all_users, id).x > 450

---------------------------------------------------------------------------
(* C11.  A play tick that brings time_to_next_level to 0 or below          *)
(* publishes served_users and complaints in the shared state and hands     *)
(* over to the end-level scene, and no other play tick does; from the      *)
(* end-level scene nothing of the round changes until a new round starts   *)
(* with a fresh state.                                                     *)

LevelEndStep ==
    Ticked =>
       IF shared_state.time_to_next_level - tick'.delta_time <= 0
       THEN /\ current_scene' = "end_level"
            /\ shared_state'.served_users = state'.served_users
            /\ shared_state'.complaints = state'.complaints
       ELSE current_scene' = "play"

EndLevelStep ==
    current_scene = "end_level" =>
       /\ current_scene' = "play"
       /\ tick'.count = 0
       /\ state'.all_users = <<>>
       /\ state'.served_users = 0
       /\ state'.complaints = 0

---------------------------------------------------------------------------
(* C12.  A round started after a completed level is played with one more   *)
(* floor than the round before it: 8 floors in the first round, 9 in the   *)
(* second, and so on.                                                      *)

---------------------------------------------------------------------------
(* C13.  The per-tick update never raises: the slot of a boarding user is  *)
(* never drawn from an empty set of available slots, so the game is always *)
(* in one of its three scenes.                                             *)

C13_NeverRaises == current_scene \in {"main_menu", "play", "end_level"}

\* the car is full while an un-boarded user with patience left is on the
\* lift's floor
C13_Witness ==
    /\ tick.count > 0
    /\ \A s \in 1..4 : lift.passengers[s] # -1
    /\ \E id \in Ids(state.all_users) :
          /\ Get(state.all_users, id).lift_slot = -1
          /\ Get(state.all_users, id).patience > 0
          /\ Get(state.all_users, id).floor = tick.lift_floor

---------------------------------------------------------------------------
(* C14.  An un-boarded user with patience left that is at rest (a tick of  *)
(* positive length leaves it where it was, at the door or behind another   *)
(* user) has waiting set, and the tick takes delta_time off its patience,  *)
(* down to 0.                                                              *)

AtRestStep ==
    Ticked /\ tick'.delta_time > 0 =>
       \A id \in Kept :
          LET u == Get(state.all_users, id)
              v == Get(state'.all_users, id)
          IN  (u.lift_slot = -1 /\ v.lift_slot = -1 /\ u.patience > 0 /\ v.x = u.x)
              => /\ v.waiting
                 /\ v.patience = (IF u.patience > tick'.delta_time
                                  THEN u.patience - tick'.delta_time ELSE 0)

C14_AtRestLosesPatience == [][AtRestStep]_vars

---------------------------------------------------------------------------
(* C15.  The queue is first-in first-out per floor and side: of two        *)
(* un-boarded users with patience left on the same floor and side, the one *)
(* that spawned earlier (the smaller id) is never farther from the lift    *)
(* than the other, the two do not overlap once both are at rest, and the   *)
(* later one never acquires a slot while the earlier one is left without.  *)

\* a and b are in line together: un-boarded, with patience, same floor and side
InLineTogether(a, b) ==
    /\ a.lift_slot = -1 /\ b.lift_slot = -1
    /\ a.patience > 0 /\ b.patience > 0
    /\ a.floor = b.floor
    /\ (a.x + 16 < 400) = (b.x + 16 < 400)

QueueStep ==
    Ticked /\ tick'.delta_time > 0 =>
       \A a, b \in Kept :
          LET ua == Get(state.all_users, a)
              ub == Get(state.all_users, b)
              va == Get(state'.all_users, a)
              vb == Get(state'.all_users, b)
          IN  (a < b /\ InLineTogether(ua, ub)) =>
                 /\ InLineTogether(va, vb) =>
                       /\ Abs((va.x + 16) - 400) <= Abs((vb.x + 16) - 400)
                       /\ (va.x = ua.x /\ vb.x = ub.x)
                             => (va.x + 32 <= vb.x \/ vb.x + 32 <= va.x)
                 /\ vb.lift_slot # -1 => va.lift_slot # -1

C15_QueueIsFifo == [][QueueStep]_vars

---------------------------------------------------------------------------
(* C16.  After every tick, an un-boarded user with patience left whose     *)
(* floor is not the lift's resolved floor, or who faces a full car, is     *)
(* outside the car with 5 px to spare: its right edge at most 345 on the   *)
(* left, its left edge at least 455 on the right.                          *)

C16_KeptOutside ==
    tick.count > 0 =>
       \A id \in Ids(state.all_users) :
          LET u == Get(state.all_users, id)
          IN  (/\ u.lift_slot = -1
               /\ u.patience > 0
               /\ \/ u.floor # tick.lift_floor
                  \/ \A s \in 1..4 : lift.passengers[s] # -1)
              => (u.x + 32 <= 345 \/ u.x >= 455)

---------------------------------------------------------------------------
(* C17.  Lift sound cues: a tick starts at most one cue, and never the cue *)
(* that is already the active one (state.lift_sound).  A lift that starts  *)
(* to move gets the start cue in that tick.                                *)

CueStep ==
    Ticked =>
       /\ tick'.cue # "none" =>
             /\ tick'.cue # state.lift_sound
             /\ state'.lift_sound = tick'.cue
       /\ tick'.cue = "none" => state'.lift_sound = state.lift_sound
       /\ (lift.velocity = 0 /\ lift'.velocity # 0) => tick'.cue = "lift_start"

C17_CueOncePerTransition == [][CueStep]_vars

---------------------------------------------------------------------------
(* C18.  The lift's acceleration is always 0, +1600 or -1600, and after a  *)
(* tick it is what the last directional action of the tick asks for: a     *)
(* press gives its direction, any release gives 0, also the release of one *)
(* direction while the other is held; without such an action it is kept.   *)

Directional(a) ==
    a \in {"pressed_up", "pressed_down", "released_up", "released_down",
           "mouse_pressed_upper", "mouse_pressed_lower", "mouse_released"}

Asked(a) ==
    IF a \in {"pressed_up", "mouse_pressed_upper"} THEN 0 - 1600
    ELSE IF a \in {"pressed_down", "mouse_pressed_lower"} THEN 1600
    ELSE 0

LastAsked(actions, kept) ==
    LET D == {i \in 1..Len(actions) : Directional(actions[i])}
    IN  IF D = {} THEN kept ELSE Asked(actions[SetMax(D)])

LastEventWinsStep ==
    /\ lift'.acceleration \in {0, 1600, 0 - 1600}
    /\ Ticked => lift'.acceleration = LastAsked(tick'.actions, lift.acceleration)

C18_LastEventWins == [][LastEventWinsStep]_vars

C18_Witness ==
    /\ tick.count > 1
    /\ tick.actions = <<"pressed_down", "released_up">>
    /\ lift.acceleration = 0
    /\ lift.velocity > 0

---------------------------------------------------------------------------
(* C19.  Every tick takes delta_time off the spawn countdown; if and only  *)
(* if the result is <= 0, one user is pulled from the stream and appended *)
(* at the end of the active users, not boarded, and the countdown is       *)
(* reseeded; otherwise nobody arrives and the countdown keeps the          *)
(* result.  So a countdown reseeded at or below 0 brings a user in the     *)
(* very next tick, and never more than one user arrives in a tick.         *)

Arrived == Ids(state'.all_users) \ Ids(state.all_users)

SpawnStep ==
    Ticked =>
       /\ IF state.time_to_next_user - tick'.delta_time <= 0
          THEN /\ Cardinality(Arrived) = 1
               /\ state'.all_users # <<>>
               /\ state'.all_users[Len(state'.all_users)].id \in Arrived
               /\ state'.all_users[Len(state'.all_users)].lift_slot = -1
          ELSE /\ Arrived = {}
               /\ state'.time_to_next_user
                     = state.time_to_next_user - tick'.delta_time
       /\ state.time_to_next_user <= 0 => Arrived # {}

C19_SpawnCountdown == [][SpawnStep]_vars

C19_Witness ==
    /\ tick.count = 3
    /\ Len(state.all_users) = 3
    /\ \A i \in 1..3 : state.all_users[i].spawned_at = 0
    /\ state.time_to_next_user > 0

---------------------------------------------------------------------------
(* C20.  Floor snapping: when the speed a tick ends with is below 100 px/s *)
(* and the integrated position is less than 14 px above a floor line       *)
(* (offset < 14) or less than 14 px below the next one (offset > 114), the *)
(* lift ends the tick on that floor line; otherwise it ends where the      *)
(* integration put it.  The velocity is the integrated one either way.     *)

Integrated ==
    LET moved == lift.y * 100 + lift'.velocity * tick'.delta_time
        y == IF moved >= 0 THEN moved \div 100 ELSE 0 - ((0 - moved) \div 100)
    IN  IF y > 896 THEN 896 ELSE IF y < 0 THEN 0 ELSE y

SnapStep ==
    Ticked =>
       LET offset == (1024 - (Integrated + 128)) % 128
           slow == lift'.velocity < 100 /\ lift'.velocity > 0 - 100
       IN  /\ lift'.y = IF slow /\ offset < 14 THEN Integrated + offset
                        ELSE IF slow /\ offset > 114 THEN Integrated - (128 - offset)
                        ELSE Integrated
           /\ (slow /\ (offset < 14 \/ offset > 114)) => lift'.y % 128 = 0
           /\ lift'.velocity
                 = IntegrateVelocity(lift.velocity, lift'.acceleration, tick'.delta_time)

---------------------------------------------------------------------------
(* C21.  No slot is leaked: after every tick each occupied entry of        *)
(* lift.passengers holds a user that is still active, is not satisfied and *)
(* has that entry as its lift_slot; and each active user that has a slot   *)
(* and is not satisfied is the occupant of its slot.                       *)

C21_NoSlotLeak ==
    current_scene = "play" =>
       /\ \A s \in 1..4 :
             lift.passengers[s] # -1 =>
                /\ lift.passengers[s] \in Ids(state.all_users)
                /\ ~Get(state.all_users, lift.passengers[s]).satisfied
                /\ Get(state.all_users, lift.passengers[s]).lift_slot = s - 1
       /\ \A id \in Ids(state.all_users) :
             LET u == Get(state.all_users, id)
             IN  (u.lift_slot # -1 /\ ~u.satisfied)
                 => lift.passengers[u.lift_slot + 1] = id

---------------------------------------------------------------------------
(* C22.  A tick removes a user once and counts it once: a removed rider    *)
(* adds 1 to served_users, a removed user without a slot adds 1 to         *)
(* complaints, nothing else moves the counters, and a removed user never   *)
(* comes back.  So after every tick served_users + complaints is the       *)
(* number of users pulled in the round that are no longer active.          *)

RemovalStep ==
    Ticked =>
       /\ state'.served_users - state.served_users
             = Cardinality({id \in Removed : Get(state.all_users, id).lift_slot # -1})
       /\ state'.complaints - state.complaints
             = Cardinality({id \in Removed : Get(state.all_users, id).lift_slot = -1})
       /\ \A id \in Ids(state'.all_users) \ Ids(state.all_users) : id > state.spawned
       /\ Cardinality(Ids(state'.all_users)) = Len(state'.all_users)
       /\ state'.served_users + state'.complaints
             = state'.spawned - Len(state'.all_users)

C22_RemovedOnceCountedOnce == [][RemovalStep]_vars

C22_Witness ==
    /\ current_scene = "play"
    /\ state.served_users > 0
    /\ state.complaints > 0
    /\ state.all_users # <<>>

===========================================================================
